---- MODULE Spec2Model ----
(***************************************************************************)
(* A model of load_docs.py: the ingestion of the PDF files of a directory  *)
(* into a Chroma vector store.  The store is the set of chunk IDs it       *)
(* holds; the loader, the splitter and the store are external and are      *)
(* modelled by what they return, with failure as a possible outcome of     *)
(* every call that leaves the process.                                     *)
(***************************************************************************)
EXTENDS Integers, Sequences, FiniteSets, TLC

\* ------------------------------------------------------------------ bounds
MaxPages == 2       \* pages of a PDF file
MaxChunks == 2      \* chunks the splitter cuts one page into
MaxSeqLen == 4      \* length of a chunk list handed to calculate_chunk_ids
MaxPageNo == 1      \* highest page number in such a list

\* --------------------------------------------------------- the file system
\* data/missing does not exist, data/empty holds no *.pdf, data/docs holds
\* the PDF files.  A directory listing is a set: glob yields it in any order.
DirNames == {"missing", "empty", "docs"}
PdfNames == <<"a.pdf", "b.pdf">>
PdfSet == {PdfNames[i] : i \in 1..Len(PdfNames)}
Listing(dir) ==
    IF dir = "docs" THEN {"notes.txt"} \cup PdfSet
    ELSE IF dir = "empty" THEN {"notes.txt"}
    ELSE {}

\* The contents a PDF file can have: per page, the number of chunks the
\* splitter cuts it into (0 for a page without text).  The first file has up
\* to MaxPages pages, the others one page.
Contents(name) ==
    UNION {[1..n -> 0..MaxChunks] :
               n \in 1..(IF name = PdfNames[1] THEN MaxPages ELSE 1)}

\* A chunk list as calculate_chunk_ids can be handed one: any order.
ChunkSources == {"a.pdf", "a.pdf:0"}
ChunkMeta == [source : ChunkSources, page : 0..MaxPageNo]
ChunkLists == UNION {[1..n -> ChunkMeta] : n \in 0..MaxSeqLen}

VARIABLES
    content,      \* content[name]: the pages of data/docs/name
    store,        \* the IDs the persistent store holds
    twice,        \* the IDs inserted while present, or twice in one insertion
    pc,           \* where main is
    args,         \* the parsed command line: [reset, dir]
    pdf_files,    \* main's sorted list of PDF paths
    idx,          \* position of the for loop in pdf_files
    docs,         \* load_documents' result for the current file
    chunks,       \* split_documents' result for the current file
    existing,     \* add_to_db's set of existing IDs
    new_chunks,   \* add_to_db's list of chunks to insert
    report,       \* the messages printed by this run
    hist,         \* what the run did so far (history, read by the properties only)
    prev,         \* the previous run: its arguments, how it ended, the store it left
    cc_in,        \* calculate_chunk_ids alone: its argument
    cc_out,       \* calculate_chunk_ids alone: its result
    cc_pc         \* calculate_chunk_ids alone: "off", "call" or "returned"

mainVars == <<content, store, twice, pc, args, pdf_files, idx, docs, chunks,
              existing, new_chunks, report, hist, prev>>
ccVars == <<cc_in, cc_out, cc_pc>>
vars == <<content, store, twice, pc, args, pdf_files, idx, docs, chunks,
          existing, new_chunks, report, hist, prev, cc_in, cc_out, cc_pc>>

\* ------------------------------------------------------- calculate_chunk_ids
None == <<>>
Some(v) == <<v>>

\* f"{source}:{page}"
PageId(source, page) == source \o ":" \o ToString(page)

\* f"{page_id}:{chunk_index}"
ChunkId(page_id, chunk_index) == page_id \o ":" \o ToString(chunk_index)

\* Mutants of NextIndex: the increment is lost; the reset is lost; the index
\* counts on over a change of page.
NextIndexNoIncrement(page_id, last_page_id, chunk_index) ==
    IF Some(page_id) = last_page_id THEN chunk_index ELSE 0
NextIndexNoReset(page_id, last_page_id, chunk_index) ==
    IF Some(page_id) = last_page_id THEN chunk_index + 1 ELSE chunk_index
NextIndexCountsOn(page_id, last_page_id, chunk_index) ==
    IF Some(page_id) = last_page_id THEN chunk_index + 1
    ELSE IF last_page_id = None THEN 0 ELSE chunk_index + 1

\* if page_id == last_page_id: chunk_index += 1  else: chunk_index = 0
NextIndex(page_id, last_page_id, chunk_index) ==
    IF Some(page_id) = last_page_id THEN chunk_index + 1 ELSE 0

\* The for loop from chunk i on, with the loop's two variables.
RECURSIVE ChunkIdLoop(_, _, _, _)
ChunkIdLoop(cs, i, last_page_id, chunk_index) ==
    IF i > Len(cs) THEN cs
    ELSE LET page_id == PageId(cs[i].source, cs[i].page)
             k == NextIndex(page_id, last_page_id, chunk_index)
             withId == [source |-> cs[i].source, page |-> cs[i].page,
                        id |-> ChunkId(page_id, k)]
         IN ChunkIdLoop([cs EXCEPT ![i] = withId], i + 1, Some(page_id), k)

calculate_chunk_ids(cs) == ChunkIdLoop(cs, 1, None, 0)

\* ------------------------------------------------------------------- main
\* Mutant of IsDir: the check passes for every name.
IsDirAlways(dir) == TRUE

\* pdf_dir.is_dir()
IsDir(dir) == dir \in {"empty", "docs"}

\* pdf_dir.glob("*.pdf"): the entries of the directory that match
Glob(dir) == Listing(dir) \cap PdfSet

\* sorted(...): PdfNames lists the names in alphabetical order
Rank(name) == CHOOSE i \in 1..Len(PdfNames) : PdfNames[i] = name
Sorted(S) ==
    CHOOSE q \in [1..Cardinality(S) -> S] :
        \A i, j \in 1..Cardinality(S) : i < j => Rank(q[i]) < Rank(q[j])

\* str(pdf_path), with pdf_path = DATA_DIR / args.dir / name
Path(dir, name) == "data/" \o dir \o "/" \o name

\* PyPDFLoader(path).load(): one document per page, in page order, each with
\* its source and its page number; text is the number of chunks it splits into.
load_documents(path, pages) ==
    [p \in 1..Len(pages) |-> [source |-> path, page |-> p - 1, text |-> pages[p]]]

\* splitter.split_documents(documents): the chunks of the first document, then
\* those of the second, ..., each chunk with a copy of its document's metadata.
RECURSIVE split_documents(_)
split_documents(documents) ==
    IF documents = <<>> THEN <<>>
    ELSE LET d == Head(documents)
         IN [j \in 1..d.text |-> [source |-> d.source, page |-> d.page]]
            \o split_documents(Tail(documents))

\* Mutant of clear_database: nothing is removed.
clear_database_keeps(s) == s

\* clear_database(): shutil.rmtree(CHROMA_DIR)
clear_database(s) == {}

\* Mutant of ExistingIds: the fetch returns no ID.
ExistingIdsNone(s) == {}

\* set(db.get(include=[])["ids"])
ExistingIds(s) == s

\* Mutant of NewChunks: the filter is lost.
NewChunksUnfiltered(cs, ex) == calculate_chunk_ids(cs)

\* [c for c in calculate_chunk_ids(chunks) if c.metadata["id"] not in existing]
NewChunks(cs, ex) == SelectSeq(calculate_chunk_ids(cs), LAMBDA c : c.id \notin ex)

\* ids = [c.metadata["id"] for c in new_chunks]
Ids(cs) == [i \in 1..Len(cs) |-> cs[i].id]

Range(q) == {q[i] : i \in 1..Len(q)}

\* Mutant of add_documents: the collection is replaced by the new documents.
add_documents_replacing(s, ids, k) == Range(SubSeq(ids, 1, k))

\* db.add_documents(new_chunks, ids=ids), of which the store applied the
\* first k (all of them when the call returns)
add_documents(s, ids, k) == s \cup Range(SubSeq(ids, 1, k))

\* The IDs of ids[1..k] that were in the store already or come twice.
InsertedTwice(s, ids, k) ==
    {ids[i] : i \in {i \in 1..k : ids[i] \in s \/ \E j \in 1..(i - 1) : ids[j] = ids[i]}}

NoHist(s) ==
    [runStore |-> s,        \* the store when the run started
     added |-> {},          \* the IDs this run inserted
     started |-> 0,         \* the files this run began to load
     opened |-> 0,          \* the store connections this run opened
     calls |-> 0,           \* the add_to_db calls of this run that fetched
     firstExisting |-> {},  \* what the first fetch of this run returned
     firstNew |-> None,     \* the IDs the first add_to_db call found new
     inserts |-> 0,         \* the add_documents calls of this run
     persists |-> 0,        \* the persist calls of this run
     preStore |-> s,        \* the store when the current add_to_db call began
     fetches |-> 0,         \* the fetches of the current add_to_db call
     submitted |-> <<>>,    \* the ids of the last add_documents call
     submittedTo |-> {},    \* the store when they were submitted
     failed |-> "no"]       \* the step that failed

Init ==
    /\ content \in {c \in [PdfSet -> UNION {Contents(n) : n \in PdfSet}] :
                       \A n \in PdfSet : c[n] \in Contents(n)}
    /\ store = {}
    /\ twice = {}
    /\ pc = "idle"
    /\ args = [reset |-> FALSE, dir |-> "missing"]
    /\ pdf_files = <<>>
    /\ idx = 0
    /\ docs = <<>>
    /\ chunks = <<>>
    /\ existing = {}
    /\ new_chunks = <<>>
    /\ report = <<>>
    /\ hist = NoHist({})
    /\ prev = <<>>
    /\ cc_in = <<>>
    /\ cc_out = <<>>
    /\ cc_pc = "off"

\* parser.parse_args(): a new run of the script
StartRun(reset, dir) ==
    /\ pc \in {"idle", "done", "crashed"}
    /\ prev' = IF pc = "idle" THEN <<>>
               ELSE <<[dir |-> args.dir, reset |-> args.reset, end |-> pc]>>
    /\ args' = [reset |-> reset, dir |-> dir]
    /\ pc' = "reset"
    /\ pdf_files' = <<>>
    /\ idx' = 0
    /\ docs' = <<>>
    /\ chunks' = <<>>
    /\ existing' = {}
    /\ new_chunks' = <<>>
    /\ report' = <<>>
    /\ hist' = NoHist(store)
    /\ UNCHANGED <<content, store, twice, ccVars>>

\* if args.reset: clear_database()
Reset ==
    /\ pc = "reset"
    /\ IF args.reset
       THEN /\ store' = clear_database(store)
            /\ report' = Append(report, "clearing")
       ELSE UNCHANGED <<store, report>>
    /\ pc' = "checkdir"
    /\ UNCHANGED <<content, twice, args, pdf_files, idx, docs, chunks, existing,
                   new_chunks, hist, prev, ccVars>>

\* if not pdf_dir.is_dir(): print; return
CheckDir ==
    /\ pc = "checkdir"
    /\ IF IsDir(args.dir)
       THEN /\ pc' = "glob"
            /\ UNCHANGED report
       ELSE /\ pc' = "done"
            /\ report' = Append(report, "dir_not_found")
    /\ UNCHANGED <<content, store, twice, args, pdf_files, idx, docs, chunks,
                   existing, new_chunks, hist, prev, ccVars>>

\* pdf_files = sorted(pdf_dir.glob("*.pdf")); if not pdf_files: print; return
GlobFiles ==
    /\ pc = "glob"
    /\ LET names == Sorted(Glob(args.dir))
           found == [i \in 1..Len(names) |-> Path(args.dir, names[i])]
       IN /\ pdf_files' = found
          /\ IF found = <<>>
             THEN /\ pc' = "done"
                  /\ report' = Append(report, "no_pdfs")
                  /\ idx' = idx
             ELSE /\ pc' = "loop"
                  /\ report' = Append(report, "found")
                  /\ idx' = 1
    /\ UNCHANGED <<content, store, twice, args, docs, chunks, existing,
                   new_chunks, hist, prev, ccVars>>

\* The name of the file at position i of pdf_files.
NameAt(i) == Sorted(Glob(args.dir))[i]

\* for pdf_path in pdf_files: docs = load_documents(pdf_path)
Load ==
    /\ pc = "loop"
    /\ idx <= Len(pdf_files)
    /\ docs' = load_documents(pdf_files[idx], content[NameAt(idx)])
    /\ hist' = [hist EXCEPT !.started = @ + 1]
    /\ pc' = "split"
    /\ UNCHANGED <<content, store, twice, args, pdf_files, idx, chunks, existing,
                   new_chunks, report, prev, ccVars>>

\* the for loop is exhausted: main returns
LoopEnd ==
    /\ pc = "loop"
    /\ idx > Len(pdf_files)
    /\ pc' = "done"
    /\ UNCHANGED <<content, store, twice, args, pdf_files, idx, docs, chunks,
                   existing, new_chunks, report, hist, prev, ccVars>>

\* chunks = split_documents(docs)
Split ==
    /\ pc = "split"
    /\ chunks' = split_documents(docs)
    /\ pc' = "connect"
    /\ UNCHANGED <<content, store, twice, args, pdf_files, idx, docs, existing,
                   new_chunks, report, hist, prev, ccVars>>

\* add_to_db: db = Chroma(...); CHROMA_DIR.mkdir(exist_ok=True)
Connect ==
    /\ pc = "connect"
    /\ hist' = [hist EXCEPT !.opened = @ + 1, !.preStore = store, !.fetches = 0]
    /\ pc' = "fetch"
    /\ UNCHANGED <<content, store, twice, args, pdf_files, idx, docs, chunks,
                   existing, new_chunks, report, prev, ccVars>>

\* add_to_db: items = db.get(include=[]); existing = set(items["ids"])
Fetch ==
    /\ pc = "fetch"
    /\ existing' = ExistingIds(store)
    /\ hist' = [hist EXCEPT !.fetches = @ + 1,
                            !.calls = @ + 1,
                            !.firstExisting =
                                IF hist.calls = 0 THEN ExistingIds(store) ELSE @]
    /\ pc' = "diff"
    /\ UNCHANGED <<content, store, twice, args, pdf_files, idx, docs, chunks,
                   new_chunks, report, prev, ccVars>>

\* add_to_db: new_chunks = [...]; if new_chunks: ... else: print
Diff ==
    /\ pc = "diff"
    /\ chunks' = calculate_chunk_ids(chunks)
    /\ new_chunks' = NewChunks(chunks, existing)
    /\ hist' = [hist EXCEPT !.firstNew =
                                IF hist.calls = 1 THEN Some(Ids(new_chunks')) ELSE @]
    /\ IF new_chunks' # <<>>
       THEN /\ pc' = "insert"
            /\ report' = Append(report, "adding")
            /\ idx' = idx
       ELSE /\ pc' = "loop"
            /\ report' = Append(report, "all_in_db")
            /\ idx' = idx + 1
    /\ UNCHANGED <<content, store, twice, args, pdf_files, docs, existing, prev,
                   ccVars>>

\* add_to_db: ids = [...]; db.add_documents(new_chunks, ids=ids)
Insert ==
    /\ pc = "insert"
    /\ LET ids == Ids(new_chunks)
       IN /\ store' = add_documents(store, ids, Len(ids))
          /\ twice' = twice \cup InsertedTwice(store, ids, Len(ids))
          /\ hist' = [hist EXCEPT !.submitted = ids,
                                  !.submittedTo = store,
                                  !.inserts = @ + 1,
                                  !.added = @ \cup Range(ids)]
    /\ pc' = "persist"
    /\ UNCHANGED <<content, args, pdf_files, idx, docs, chunks, existing,
                   new_chunks, report, prev, ccVars>>

\* add_to_db: db.persist(); then the next file
Persist ==
    /\ pc = "persist"
    /\ hist' = [hist EXCEPT !.persists = @ + 1]
    /\ idx' = idx + 1
    /\ pc' = "loop"
    /\ UNCHANGED <<content, store, twice, args, pdf_files, docs, chunks, existing,
                   new_chunks, report, prev, ccVars>>

\* Mutant of AfterFailure: the run's insertions are rolled back.
AfterFailureRollback(s, runStart) == runStart

\* What an uncaught exception leaves of the store: main has no try/except,
\* and nothing is undone.
AfterFailure(s, runStart) == s

\* load_documents, Chroma(...), db.get or db.persist raises: the exception is
\* not caught and ends the run.
FailCall ==
    /\ \/ pc = "loop" /\ idx <= Len(pdf_files)
       \/ pc \in {"connect", "fetch", "persist"}
    /\ hist' = [hist EXCEPT !.failed = IF pc = "loop" THEN "load" ELSE pc,
                            !.started = IF pc = "loop" THEN @ + 1 ELSE @]
    /\ store' = AfterFailure(store, hist.runStore)
    /\ pc' = "crashed"
    /\ UNCHANGED <<content, twice, args, pdf_files, idx, docs, chunks, existing,
                   new_chunks, report, prev, ccVars>>

\* db.add_documents raises (the embedding or the store fails) after the store
\* applied the first k of the ids.
FailInsert(k) ==
    /\ pc = "insert"
    /\ LET ids == Ids(new_chunks)
       IN /\ k \in 0..Len(ids)
          /\ store' = AfterFailure(add_documents(store, ids, k), hist.runStore)
          /\ twice' = twice \cup InsertedTwice(store, ids, k)
          /\ hist' = [hist EXCEPT !.submitted = ids,
                                  !.submittedTo = store,
                                  !.inserts = @ + 1,
                                  !.added = @ \cup Range(SubSeq(ids, 1, k)),
                                  !.failed = "insert"]
    /\ pc' = "crashed"
    /\ UNCHANGED <<content, args, pdf_files, idx, docs, chunks, existing,
                   new_chunks, report, prev, ccVars>>

\* A step of the run in progress.
RunStep ==
    \/ Reset
    \/ CheckDir
    \/ GlobFiles
    \/ Load
    \/ LoopEnd
    \/ Split
    \/ Connect
    \/ Fetch
    \/ Diff
    \/ Insert
    \/ Persist
    \/ FailCall
    \/ \E k \in 0..(MaxPages * MaxChunks) : FailInsert(k)

Next ==
    \/ \E reset \in BOOLEAN, dir \in DirNames : StartRun(reset, dir)
    \/ RunStep

Spec == Init /\ [][Next]_vars

\* ------------------------------------------ calculate_chunk_ids on its own
InitIds ==
    /\ cc_in \in ChunkLists
    /\ cc_out = <<>>
    /\ cc_pc = "call"
    /\ content = [n \in PdfSet |-> <<0>>]
    /\ store = {}
    /\ twice = {}
    /\ pc = "off"
    /\ args = [reset |-> FALSE, dir |-> "missing"]
    /\ pdf_files = <<>>
    /\ idx = 0
    /\ docs = <<>>
    /\ chunks = <<>>
    /\ existing = {}
    /\ new_chunks = <<>>
    /\ report = <<>>
    /\ hist = NoHist({})
    /\ prev = <<>>

CallChunkIds ==
    /\ cc_pc = "call"
    /\ cc_out' = calculate_chunk_ids(cc_in)
    /\ cc_pc' = "returned"
    /\ UNCHANGED <<cc_in, mainVars>>

NextIds == CallChunkIds

SpecIds == InitIds /\ [][NextIds]_vars

\* ------------------------------------------------------------- properties
\* What the properties expect, stated without the operators of the model.

\* The IDs of a file at path whose pages split into pages[p] chunks each.
ExpectedIds(path, pages) ==
    UNION {{path \o ":" \o ToString(p - 1) \o ":" \o ToString(j - 1) : j \in 1..pages[p]}
               : p \in 1..Len(pages)}

\* The IDs of the i-th PDF file of data/docs.
ExpectedFileIds(i) == ExpectedIds("data/docs/" \o PdfNames[i], content[PdfNames[i]])

SamePair(c, d) == c.source = d.source /\ c.page = d.page

\* cs[i] starts a run: it is the first chunk, or its pair differs from the one before.
RunStart(cs, i) == i = 1 \/ ~SamePair(cs[i], cs[i - 1])

\* The chunks of every (source, page) pair are contiguous.
Grouped(cs) ==
    \A i, j \in 1..Len(cs) :
        i < j /\ SamePair(cs[i], cs[j]) => \A k \in i..j : SamePair(cs[i], cs[k])

Distinct(q) == \A i, j \in 1..Len(q) : i # j => q[i] # q[j]

Returned == cc_pc = "returned"

\* calculate_chunk_ids returns the chunks in input order, metadata kept.
OrderKept ==
    /\ Len(cc_out) = Len(cc_in)
    /\ \A i \in 1..Len(cc_in) : SamePair(cc_out[i], cc_in[i])

\* C2: chunks that all share one (source, page) get the IDs source:page:0,
\* source:page:1, ... in input order, and the returned order is the input order.
C2_OnePageIndexes ==
    Returned /\ (\A i \in 1..Len(cc_in) : SamePair(cc_in[i], cc_in[1]))
    => /\ OrderKept
       /\ \A i \in 1..Len(cc_in) :
              cc_out[i].id = cc_in[i].source \o ":" \o ToString(cc_in[i].page)
                                 \o ":" \o ToString(i - 1)

C2_Witness ==
    /\ Returned
    /\ Len(cc_in) = 3
    /\ \A i \in 1..3 : cc_in[i] = [source |-> "a.pdf", page |-> 1]
    /\ Ids(cc_out) = <<"a.pdf:1:0", "a.pdf:1:1", "a.pdf:1:2">>

\* C3: in a grouped chunk list the first chunk of every run gets index 0 and
\* all IDs are pairwise distinct.
C3_GroupedResetAndUnique ==
    Returned /\ Grouped(cc_in)
    => /\ OrderKept
       /\ \A i \in 1..Len(cc_in) :
              RunStart(cc_in, i)
              => cc_out[i].id = cc_in[i].source \o ":" \o ToString(cc_in[i].page) \o ":0"
       /\ Distinct(Ids(cc_out))

C3_Witness ==
    /\ Returned
    /\ Grouped(cc_in)
    /\ Len(cc_in) = 4
    /\ Ids(cc_out) = <<"a.pdf:0:0", "a.pdf:0:1", "a.pdf:0:0:0", "a.pdf:0:0:1">>

\* C7: when a (source, page) pair occurs in two separate runs, the first chunk
\* of the later run gets index 0 again, the ID of the first chunk of the
\* earlier run: the IDs are not pairwise distinct.
C7_UngroupedCollides ==
    Returned
    => /\ \A i, j \in 1..Len(cc_in) :
              i < j /\ RunStart(cc_in, i) /\ RunStart(cc_in, j) /\ SamePair(cc_in[i], cc_in[j])
              => /\ cc_out[j].id = cc_in[j].source \o ":" \o ToString(cc_in[j].page) \o ":0"
                 /\ cc_out[j].id = cc_out[i].id
       /\ ~Grouped(cc_in) => ~Distinct(Ids(cc_out))

C7_Witness ==
    /\ Returned
    /\ ~Grouped(cc_in)
    /\ Ids(cc_out) = <<"a.pdf:0:0", "a.pdf:0:1", "a.pdf:1:0", "a.pdf:0:0">>

\* The run is past its reset step.
PastReset == pc \notin {"idle", "off", "reset"}

\* The current run repeats, without --reset, a run without --reset of the same
\* directory that returned normally.
Rerun ==
    /\ pc \notin {"idle", "off"}
    /\ prev # None
    /\ prev[1].end = "done"
    /\ ~prev[1].reset
    /\ prev[1].dir = args.dir
    /\ ~args.reset

\* C1: a second run without --reset on the unchanged files, after a first one
\* that ran to completion, finds every computed ID in the existing-ID set: no
\* insert, no persist, and the store keeps the ID set the first run left.
C1_IdempotentRerun ==
    Rerun
    => /\ new_chunks = <<>>
       /\ pc \notin {"insert", "persist"}
       /\ hist.inserts = 0
       /\ hist.persists = 0
       /\ hist.added = {}
       /\ store = hist.runStore
       /\ pc \in {"insert", "persist", "loop", "done"} /\ hist.calls > 0
          => Range(Ids(chunks)) \subseteq existing

C1_Witness ==
    /\ Rerun
    /\ pc = "done"
    /\ args.dir = "docs"
    /\ hist.calls = 2
    /\ Cardinality(store) >= 3
    /\ report = <<"found", "all_in_db", "all_in_db">>

\* C4: --reset clears the store before any file is processed: the first fetch
\* of the run returns the empty set, every ID computed for the first file is
\* treated as new, and the store holds no ID that this run did not insert.
C4_ResetClears ==
    args.reset /\ PastReset
    => /\ hist.started = 0 => store = {}
       /\ hist.calls > 0 => hist.firstExisting = {}
       /\ hist.firstNew # None
          => /\ Range(hist.firstNew[1]) = ExpectedFileIds(1)
             /\ Len(hist.firstNew[1]) = Cardinality(ExpectedFileIds(1))
       /\ store \subseteq hist.added

C4_Witness ==
    /\ args.reset
    /\ pc = "crashed"
    /\ hist.calls = 2
    /\ hist.firstNew # None
    /\ Len(hist.firstNew[1]) >= 2
    /\ store \cap hist.runStore # {}
    /\ hist.runStore \ store # {}

\* C5: when the directory does not exist or holds no *.pdf, main reports the
\* condition and returns normally: no load, no connection to the store, no
\* fetch, no insert, no persist, no error.
C5_NothingToIngest ==
    pc \notin {"idle", "off"} /\ args.dir \in {"missing", "empty"}
    => /\ pc \in {"reset", "checkdir", "glob", "done"}
       /\ hist.started = 0
       /\ hist.opened = 0
       /\ hist.calls = 0
       /\ hist.inserts = 0
       /\ hist.persists = 0
       /\ hist.failed = "no"
       /\ pc = "done" /\ args.dir = "missing"
          => report[Len(report)] = "dir_not_found" /\ pdf_files = <<>>
       /\ pc = "done" /\ args.dir = "empty" => report[Len(report)] = "no_pdfs"

C5_Witness ==
    /\ pc = "done"
    /\ args.dir = "missing"
    /\ ~args.reset
    /\ store # {}
    /\ report = <<"dir_not_found">>

\* C6: no chunk is submitted for insertion whose ID is in the store already or
\* is the ID of another chunk of the same insertion: no ID is inserted twice.
C6_NoDuplicateInsert ==
    /\ twice = {}
    /\ pc = "insert"
       => /\ Distinct(Ids(new_chunks))
          /\ Range(Ids(new_chunks)) \cap store = {}
    /\ hist.inserts > 0
       => /\ Distinct(hist.submitted)
          /\ Range(hist.submitted) \cap hist.submittedTo = {}

C6_Witness ==
    /\ pc = "persist"
    /\ Len(hist.submitted) >= 2
    /\ Len(hist.submitted) < Len(chunks)
    /\ \E i \in 1..Len(chunks) : chunks[i].id \in hist.preStore

\* C8: a failure ends the run where it happens: nothing is retried or undone,
\* the IDs inserted before it stay in the store, and no later file is processed.
C8_NoRollback ==
    pc = "crashed"
    => /\ ~ENABLED RunStep
       /\ hist.added \subseteq store
       /\ ~args.reset => hist.runStore \subseteq store
       /\ store = (IF args.reset THEN {} ELSE hist.runStore) \cup hist.added
       /\ idx \in 1..Len(pdf_files)
       /\ hist.started = idx
       /\ hist.opened <= idx
       /\ hist.calls <= idx
       /\ hist.inserts <= idx
       /\ \A i \in (idx + 1)..Len(pdf_files) : hist.added \cap ExpectedFileIds(i) = {}

C8_Witness ==
    /\ pc = "crashed"
    /\ hist.failed = "insert"
    /\ idx = 1
    /\ Len(pdf_files) = 2
    /\ hist.added # {}
    /\ Range(hist.submitted) \ store # {}
    /\ ExpectedFileIds(2) # {}
    /\ ExpectedFileIds(2) \cap store = {}

\* The position of the file whose add_to_db call is the last one begun.
LastCalled == IF pc \in {"fetch", "diff", "insert", "persist"} THEN idx ELSE idx - 1

\* C9: the existing IDs are fetched once per add_to_db call, before any
\* insertion of the call; a call that completes leaves the store with the IDs
\* it held before united with the IDs computed for the call's chunks; without
\* --reset no ID is removed from the store.
C9_ReadThenAppend ==
    /\ pc \notin {"idle", "off"} /\ ~args.reset => hist.runStore \subseteq store
    /\ hist.opened > 0 => hist.preStore \subseteq store
    /\ pc = "fetch" => hist.fetches = 0 /\ store = hist.preStore
    /\ pc \in {"diff", "insert"} => hist.fetches = 1 /\ store = hist.preStore
    /\ pc = "persist" => hist.fetches = 1
    /\ pc \in {"loop", "done"} /\ hist.opened > 0
       => /\ hist.fetches = 1
          /\ hist.calls = hist.opened
          /\ store = hist.preStore \cup Range(Ids(chunks))
          /\ store = hist.preStore \cup ExpectedFileIds(LastCalled)

C9_Witness ==
    /\ pc = "loop"
    /\ idx = 3
    /\ ~args.reset
    /\ hist.preStore # {}
    /\ store # hist.preStore
    /\ hist.preStore \ ExpectedFileIds(2) # {}

\* C10: the reset comes before the directory is validated: a run with --reset
\* on a directory that does not exist or holds no PDF deletes the store and
\* returns without ingesting anything.
C10_ResetBeforeValidation ==
    args.reset /\ args.dir \in {"missing", "empty"}
    => /\ pc \in {"checkdir", "glob", "done"} => store = {}
       /\ pc = "done"
          => /\ hist.started = 0
             /\ hist.added = {}
             /\ report = <<"clearing",
                           IF args.dir = "missing" THEN "dir_not_found" ELSE "no_pdfs">>

C10_Witness ==
    /\ args.reset
    /\ args.dir = "missing"
    /\ pc = "done"
    /\ hist.runStore # {}
    /\ store = {}

====
